---------------------------- MODULE Spec2Model ----------------------------
(***************************************************************************)
(* Curiosity Explorer: the session manager of src/curiosity_agent.py.      *)
(*                                                                         *)
(* Text is a sequence of Unicode code points, so that strip(), lower(),    *)
(* slicing and the regular expressions of _clean_for_speech are computed   *)
(* on characters, as the code computes them.                               *)
(***************************************************************************)
EXTENDS Integers, Sequences, FiniteSets, TLC

(***************************************************************************)
(* Bounds of the model.                                                    *)
(***************************************************************************)
\* ask is explored while the stored history holds fewer than MaxHist turns
MaxHist == 7
\* questions are explored while fewer than MaxFiles audio files were created
MaxFiles == 1
\* spoken questions that are not blank are explored while the stored history
\* holds fewer than MaxVoiceHist turns
MaxVoiceHist == 1
\* the answers given to speak() alone are made of at most MaxPieces parts
MaxPieces == 3

(***************************************************************************)
(* Program constants.                                                      *)
(***************************************************************************)
\* conversation_history[-6:]
HistoryWindow == 6
\* str(e)[:50]
DiagLimit == 50

\* Python's None where a text may stand: no text holds the code point -1
None == <<-1>>

(***************************************************************************)
(* Text helpers: str.strip(), str.lower(), slicing.                        *)
(***************************************************************************)
\* the ASCII white space that str.strip() and the pattern \s remove
Whitespace == {9, 10, 11, 12, 13, 32}

IsSpace(c) == c \in Whitespace

RECURSIVE LStrip(_)
LStrip(s) ==
    IF s = <<>> THEN <<>>
    ELSE IF IsSpace(Head(s)) THEN LStrip(Tail(s)) ELSE s

RECURSIVE RStrip(_)
RStrip(s) ==
    IF s = <<>> THEN <<>>
    ELSE IF IsSpace(s[Len(s)]) THEN RStrip(SubSeq(s, 1, Len(s) - 1)) ELSE s

\* str.strip()
Strip(s) == RStrip(LStrip(s))

\* str.lower() on the ASCII letters
LowerChar(c) == IF c \in 65..90 THEN c + 32 ELSE c

Lower(s) == [i \in 1..Len(s) |-> LowerChar(s[i])]

\* s[:n]
Prefix(s, n) == SubSeq(s, 1, IF Len(s) < n THEN Len(s) ELSE n)

\* s[-n:]
Suffix(s, n) == SubSeq(s, (IF Len(s) < n THEN 0 ELSE Len(s) - n) + 1, Len(s))

StartsWithAt(s, i, p) ==
    /\ i + Len(p) - 1 <= Len(s)
    /\ SubSeq(s, i, i + Len(p) - 1) = p

\* Python truthiness of a string-or-None value
Truthy(v) == v # None /\ v # <<>>

\* a or b
Or(a, b) == IF Truthy(a) THEN a ELSE b

(***************************************************************************)
(* _clean_for_speech: the four substitutions, in the code's order.         *)
(***************************************************************************)
\* "\U0001F300-\U0001F9FF" "\U00002600-\U000026FF" "\U00002700-\U000027BF"
IsEmoji(c) ==
    \/ c \in 127744..129535
    \/ c \in 9728..9983
    \/ c \in 9984..10175

\* emoji_pattern.sub('', text)
RemoveEmoji(s) == SelectSeq(s, LAMBDA c : ~IsEmoji(c))

\* the least element of a non-empty set of integers
Least(S) == CHOOSE x \in S : \A y \in S : x <= y

\* the first index >= i of s whose character is in C, Len(s) + 1 when none is
FirstIndex(s, i, C) ==
    Least({k \in i..Len(s) : s[k] \in C} \cup {Len(s) + 1})

\* the length of the run of non-space characters of s that starts at i (\S*)
NonSpaceRun(s, i) == FirstIndex(s, i, Whitespace) - i

\* the length of the match of  head \S+  at i, 0 when there is none
HeadRunMatch(s, i, head) ==
    IF StartsWithAt(s, i, head) /\ NonSpaceRun(s, i + Len(head)) > 0
    THEN Len(head) + NonSpaceRun(s, i + Len(head))
    ELSE 0

\* the length of the match of  https?://\S+  at i, 0 when there is none
HttpMatch(s, i) ==
    LET secure == HeadRunMatch(s, i, <<104, 116, 116, 112, 115, 58, 47, 47>>)
        plain  == HeadRunMatch(s, i, <<104, 116, 116, 112, 58, 47, 47>>)
    IN  IF secure > 0 THEN secure ELSE plain

\* the length of the match of  www\.\S+  at i, 0 when there is none
WwwMatch(s, i) == HeadRunMatch(s, i, <<119, 119, 119, 46>>)

\* re.sub(r'https?://\S+', '', text), scanning from i: the text up to the
\* leftmost match is kept, the match dropped, and the scan goes on behind it
RECURSIVE RemoveHttp(_, _)
RemoveHttp(s, i) ==
    LET at == Least({k \in i..Len(s) : HttpMatch(s, k) > 0} \cup {Len(s) + 1})
    IN  IF at > Len(s) THEN SubSeq(s, i, Len(s))
        ELSE SubSeq(s, i, at - 1) \o RemoveHttp(s, at + HttpMatch(s, at))

\* re.sub(r'www\.\S+', '', text), scanning from i
RECURSIVE RemoveWww(_, _)
RemoveWww(s, i) ==
    LET at == Least({k \in i..Len(s) : WwwMatch(s, k) > 0} \cup {Len(s) + 1})
    IN  IF at > Len(s) THEN SubSeq(s, i, Len(s))
        ELSE SubSeq(s, i, at - 1) \o RemoveWww(s, at + WwwMatch(s, at))

\* the first index >= i of s that holds c, Len(s) + 1 when there is none
IndexFrom(s, i, c) == FirstIndex(s, i, {c})

\* the match of  \[([^\]]+)\]\([^)]+\)  at i: [ok, label, next]
LinkMatch(s, i) ==
    LET close == IndexFrom(s, i + 1, 93)
        paren == IndexFrom(s, close + 2, 41)
        ok    == /\ i <= Len(s) /\ s[i] = 91
                 /\ close <= Len(s) /\ close >= i + 2
                 /\ close + 1 <= Len(s) /\ s[close + 1] = 40
                 /\ paren <= Len(s) /\ paren >= close + 3
    IN  [ok |-> ok,
         label |-> IF ok THEN SubSeq(s, i + 1, close - 1) ELSE <<>>,
         next |-> IF ok THEN paren + 1 ELSE i + 1]

\* re.sub(r'\[([^\]]+)\]\([^)]+\)', r'\1', text), scanning from i
RECURSIVE RewriteLinks(_, _)
RewriteLinks(s, i) ==
    LET at == Least({k \in i..Len(s) : LinkMatch(s, k).ok} \cup {Len(s) + 1})
    IN  IF at > Len(s) THEN SubSeq(s, i, Len(s))
        ELSE SubSeq(s, i, at - 1) \o LinkMatch(s, at).label
                 \o RewriteLinks(s, LinkMatch(s, at).next)

\* re.sub(r'\s+', ' ', text): of each run of white space its first character
\* stays, as a space
CollapseSpace(s) ==
    LET index == [k \in 1..Len(s) |-> k]
        kept  == SelectSeq(index, LAMBDA k : ~(IsSpace(s[k]) /\ k > 1 /\ IsSpace(s[k - 1])))
    IN  [k \in 1..Len(kept) |-> IF IsSpace(s[kept[k]]) THEN 32 ELSE s[kept[k]]]

_clean_for_speech(text) ==
    LET t1 == RemoveEmoji(text)
        t2 == RemoveHttp(t1, 1)
        t3 == RemoveWww(t2, 1)
        t4 == RewriteLinks(t3, 1)
    IN  Strip(CollapseSpace(t4))

(***************************************************************************)
(* Fixed texts of the program.                                             *)
(***************************************************************************)
\* "Oops! Something went wrong. Let's try again! ("
OopsText ==
    <<79, 111, 112, 115, 33, 32, 83, 111, 109, 101, 116, 104, 105, 110, 103,
      32, 119, 101, 110, 116, 32, 119, 114, 111, 110, 103, 46, 32, 76, 101,
      116, 39, 115, 32, 116, 114, 121, 32, 97, 103, 97, 105, 110, 33, 32, 40>>

\* "Please ask me something!"
PleaseAskText ==
    <<80, 108, 101, 97, 115, 101, 32, 97, 115, 107, 32, 109, 101, 32, 115,
      111, 109, 101, 116, 104, 105, 110, 103, 33>>

\* ['quit', 'exit', 'bye', 'q']
QuitWords ==
    { <<113, 117, 105, 116>>, <<101, 120, 105, 116>>, <<98, 121, 101>>, <<113>> }

ClearWord  == <<99, 108, 101, 97, 114>>
MuteWord   == <<109, 117, 116, 101>>
UnmuteWord == <<117, 110, 109, 117, 116, 101>>
VoiceWord  == <<118, 111, 105, 99, 101>>

CommandWords == QuitWords \cup {ClearWord, MuteWord, UnmuteWord, VoiceWord}

(***************************************************************************)
(* Inputs: what the user, the environment and the remote services give.    *)
(***************************************************************************)
\* lines typed at the prompt:
\* " Quit ", "q", "exit", "bye", "CLEAR", " Mute", "UnMute ", "Voice", "", "  ", " Why? "
TypedLines ==
    { <<32, 81, 117, 105, 116, 32>>, <<113>>, <<101, 120, 105, 116>>,
      <<98, 121, 101>>, <<67, 76, 69, 65, 82>>, <<32, 77, 117, 116, 101>>,
      <<85, 110, 77, 117, 116, 101, 32>>, <<86, 111, 105, 99, 101>>,
      <<>>, <<32, 32>>, <<32, 87, 104, 121, 63, 32>> }

\* texts recognize_google returns: "Quit", "mute", "  ", ""
Transcripts == { <<81, 117, 105, 116>>, <<109, 117, 116, 101>>, <<32, 32>>, <<>> }

\* the exceptions listen() catches
ListenFailures == {"WaitTimeoutError", "UnknownValueError", "RequestError", "Exception"}

\* message contents the completion service returns: " Ok! ", a lone pictograph
RawAnswers == { <<32, 79, 107, 33, 32>>, <<128512>> }

\* a diagnostic str(e) of n characters, each position its own letter
DiagnosticOf(n) == [i \in 1..n |-> 97 + (i % 26)]

\* diagnostics shorter than, as long as and longer than the slice [:50]
Diagnostics == { DiagnosticOf(2), DiagnosticOf(DiagLimit + 3) }

\* config.json: no file, unparsable, or readable with the text under
\* "openai_api_key": "" (key absent or empty), "  ", " sk-2 "
ConfigFiles ==
    { [state |-> "missing", key |-> <<>>], [state |-> "malformed", key |-> <<>>] }
    \cup { [state |-> "readable", key |-> k] :
             k \in { <<>>, <<32, 32>>, <<32, 115, 107, 45, 50, 32>> } }

\* os.getenv("OPENAI_API_KEY"): unset, "", "sk-3"
EnvValues == { None, <<>>, <<115, 107, 45, 51>> }

\* the api_key argument of CuriosityAgent(...): None, "", "sk-1"
ExplicitKeys == { None, <<>>, <<115, 107, 45, 49>> }

\* what the user types at "API Key (or press Enter to quit): ": "", " sk-4 "
TypedKeys == { <<>>, <<32, 115, 107, 45, 52, 32>> }

Platforms == {"darwin", "linux", "win32"}

\* "Check \U0001F600 https://x.co [here](http://y.co)"
ExampleText ==
    <<67, 104, 101, 99, 107, 32, 128512, 32, 104, 116, 116, 112, 115, 58,
      47, 47, 120, 46, 99, 111, 32, 91, 104, 101, 114, 101, 93, 40, 104,
      116, 116, 112, 58, 47, 47, 121, 46, 99, 111, 41>>

\* parts of answers: "Hi", " ", a pictograph, "https://x.co", "www.a.b",
\* "[a](b)", "[here](http://y.co)", ")"
SpeechPieces ==
    { <<72, 105>>,
      <<32>>,
      <<128512>>,
      <<104, 116, 116, 112, 115, 58, 47, 47, 120, 46, 99, 111>>,
      <<119, 119, 119, 46, 97, 46, 98>>,
      <<91, 97, 93, 40, 98, 41>>,
      <<91, 104, 101, 114, 101, 93, 40, 104, 116, 116, 112, 58, 47, 47, 121, 46, 99, 111, 41>>,
      <<41>> }

\* the texts of at most n parts
RECURSIVE TextsOf(_)
TextsOf(n) ==
    IF n = 0 THEN { <<>> }
    ELSE TextsOf(n - 1) \cup { t \o piece : t \in TextsOf(n - 1), piece \in SpeechPieces }

\* message contents of the completion service for the speech path
SpokenAnswers == TextsOf(MaxPieces) \cup { ExampleText }

(***************************************************************************)
(* State.                                                                  *)
(***************************************************************************)
VARIABLES
    pc,                  \* where the main thread is
    outcome,             \* "running", or the exit status of the process
    endCause,            \* why the process ended
    farewell,            \* the farewell line was printed
    SPEECH_RECOGNITION_AVAILABLE,
    PLAYSOUND_AVAILABLE,
    platform,            \* sys.platform
    frame,               \* arguments and environment of the construction in progress
    configWrites,        \* how often main() wrote config.json
    api_key,             \* self.api_key
    client,              \* self.client: "None" until the constructor sets it
    conversation_history,
    muted,
    user_input,          \* the local of run(): the line read, then what listen() gave
    listened,            \* how listen() ended in this iteration, "no": not called
    question,            \* the argument of ask()
    history_before,      \* conversation_history when ask() was entered
    recent_history,      \* the turns ask() submitted to the completion call
    answer,              \* what ask() returned
    clean_text,          \* the local of speak(): the sanitized answer
    diag,                \* str(e) of the failed completion call
    askResult,           \* how ask() ended in this iteration
    printed,             \* the answer line was printed in this iteration
    calls,               \* remote requests issued in this iteration
    synthesis,           \* "requested" while the synthesis request is outstanding
    nfiles,              \* temporary audio files created so far: 1..nfiles
    tmpfiles,            \* those that exist
    units,               \* those a live background playback thread owns
    played,              \* those whose playback attempt has ended
    temp_path            \* the file the system-command playback is playing, 0: none

credVars == <<frame, configWrites, api_key, client>>
envVars == <<SPEECH_RECOGNITION_AVAILABLE, PLAYSOUND_AVAILABLE, platform>>
endVars == <<outcome, endCause, farewell>>
sessionVars == <<conversation_history, muted>>
\* what an iteration sets after its input
askVars ==
    <<question, history_before, recent_history, answer, clean_text, diag, askResult,
      printed, calls, synthesis>>
iterVars ==
    <<user_input, listened, question, history_before, recent_history, answer,
      clean_text, diag, askResult, printed, calls, synthesis>>
audioVars == <<nfiles, tmpfiles, units, played, temp_path>>

vars == <<pc, endVars, envVars, credVars, sessionVars, iterVars, audioVars>>

\* no construction in progress
NoFrame ==
    [entry |-> "none", api_key |-> None, config |-> [state |-> "missing", key |-> <<>>],
     env |-> None, found |-> None, typed |-> None]

NoCalls == [completion |-> 0, synthesis |-> 0, transcription |-> 0]

Turn(role, content) == [role |-> role, content |-> content]

\* the iteration's locals at the top of the loop
IterReset ==
    /\ user_input' = None
    /\ listened' = "no"
    /\ question' = None
    /\ history_before' = <<>>
    /\ recent_history' = <<>>
    /\ answer' = None
    /\ clean_text' = None
    /\ diag' = None
    /\ askResult' = "none"
    /\ printed' = FALSE
    /\ calls' = NoCalls
    /\ synthesis' = "idle"

\* the process starts
InitProcess ==
    /\ pc = "start"
    /\ outcome = "running"
    /\ endCause = "none"
    /\ farewell = FALSE
    /\ SPEECH_RECOGNITION_AVAILABLE \in BOOLEAN
    /\ PLAYSOUND_AVAILABLE \in BOOLEAN
    \* sys.platform is read only where playsound could not be imported
    /\ platform \in IF PLAYSOUND_AVAILABLE THEN {"linux"} ELSE Platforms
    /\ frame = NoFrame
    /\ configWrites = 0
    /\ api_key = None
    /\ client = "None"
    /\ conversation_history = <<>>
    /\ muted = FALSE
    /\ user_input = None
    /\ listened = "no"
    /\ question = None
    /\ history_before = <<>>
    /\ recent_history = <<>>
    /\ answer = None
    /\ clean_text = None
    /\ diag = None
    /\ askResult = "none"
    /\ printed = FALSE
    /\ calls = NoCalls
    /\ synthesis = "idle"
    /\ nfiles = 0
    /\ tmpfiles = {}
    /\ units = {}
    /\ played = {}
    /\ temp_path = 0

\* a session after its construction, at its first prompt
Init ==
    /\ pc = "prompt"
    /\ outcome = "running"
    /\ endCause = "none"
    /\ farewell = FALSE
    /\ SPEECH_RECOGNITION_AVAILABLE \in BOOLEAN
    /\ PLAYSOUND_AVAILABLE \in BOOLEAN
    /\ platform \in IF PLAYSOUND_AVAILABLE THEN {"linux"} ELSE Platforms
    /\ frame = NoFrame
    /\ configWrites = 0
    /\ api_key = <<115, 107, 45, 49>>
    /\ client = "OpenAI"
    /\ conversation_history = <<>>
    /\ muted = FALSE
    /\ user_input = None
    /\ listened = "no"
    /\ question = None
    /\ history_before = <<>>
    /\ recent_history = <<>>
    /\ answer = None
    /\ clean_text = None
    /\ diag = None
    /\ askResult = "none"
    /\ printed = FALSE
    /\ calls = NoCalls
    /\ synthesis = "idle"
    /\ nfiles = 0
    /\ tmpfiles = {}
    /\ units = {}
    /\ played = {}
    /\ temp_path = 0

(***************************************************************************)
(* Credential resolution and construction.                                 *)
(***************************************************************************)
\* load_api_key_from_config(): the stripped key, or None
load_api_key_from_config(config) ==
    IF config.state = "readable" /\ Strip(config.key) # <<>>
    THEN Strip(config.key)
    ELSE None

\* a slip of ResolveKey: the environment variable before config.json
ResolveKey_env_first(explicit, config, env) ==
    Or(Or(explicit, env), load_api_key_from_config(config))

\* api_key or load_api_key_from_config() or os.getenv("OPENAI_API_KEY")
ResolveKey(explicit, config, env) ==
    Or(Or(explicit, load_api_key_from_config(config)), env)

\* a slip of CredentialMissing: if self.api_key is None
CredentialMissing_none_only(key) == key = None

\* if not self.api_key: raise ValueError
CredentialMissing(key) == ~Truthy(key)

\* the process ends: its memory is discarded and its daemon playback threads
\* end with it; the files on disk stay
Terminate(status, cause, bye) ==
    /\ pc' = "done"
    /\ outcome' = status
    /\ endCause' = cause
    /\ farewell' = bye
    /\ conversation_history' = <<>>
    /\ muted' = FALSE
    /\ IterReset
    /\ units' = {}
    /\ UNCHANGED <<nfiles, tmpfiles, played, temp_path>>

\* a slip of main: the key in use is saved to config.json whether it was
\* found or typed
main_saves_found ==
    /\ pc = "start"
    /\ \E config \in ConfigFiles, env \in EnvValues, typed \in TypedKeys :
         LET found == Or(load_api_key_from_config(config), env)
             key   == IF Truthy(found) THEN found ELSE Strip(typed)
         IN  /\ key # <<>>
             /\ frame' = [entry |-> "main", api_key |-> key,
                          config |-> [state |-> "readable", key |-> key],
                          env |-> env, found |-> found,
                          typed |-> IF Truthy(found) THEN None ELSE typed]
             /\ configWrites' = configWrites + 1
             /\ pc' = "constructing"
    /\ UNCHANGED <<envVars, endVars, audioVars, api_key, client, sessionVars, iterVars>>

\* main(), up to the construction of the agent
main ==
    /\ pc = "start"
    /\ \E config \in ConfigFiles, env \in EnvValues, typed \in TypedKeys, saved \in BOOLEAN :
         LET found == Or(load_api_key_from_config(config), env)
             key   == Strip(typed)
         IN  IF Truthy(found)
             THEN /\ frame' = [entry |-> "main", api_key |-> found, config |-> config,
                               env |-> env, found |-> found, typed |-> None]
                  /\ pc' = "constructing"
                  /\ UNCHANGED <<configWrites, endVars, audioVars, api_key, client,
                                 sessionVars, iterVars>>
             ELSE IF key = <<>>
             THEN \* "Bye!" and return
                  /\ frame' = [entry |-> "main", api_key |-> key, config |-> config,
                               env |-> env, found |-> found, typed |-> typed]
                  /\ configWrites' = configWrites
                  /\ Terminate("exit0", "declined", FALSE)
                  /\ UNCHANGED <<api_key, client>>
             ELSE \* json.dump to config.json, which may fail with a warning
                  /\ frame' = [entry |-> "main", api_key |-> key,
                               config |-> IF saved
                                          THEN [state |-> "readable", key |-> key]
                                          ELSE config,
                               env |-> env, found |-> found, typed |-> typed]
                  /\ configWrites' = IF saved THEN configWrites + 1 ELSE configWrites
                  /\ pc' = "constructing"
                  /\ UNCHANGED <<endVars, audioVars, api_key, client, sessionVars,
                                 iterVars>>
    /\ UNCHANGED envVars

\* a caller other than main() constructs the agent: CuriosityAgent(api_key=...)
caller ==
    /\ pc = "start"
    /\ \E explicit \in ExplicitKeys, config \in ConfigFiles, env \in EnvValues :
         frame' = [entry |-> "caller", api_key |-> explicit, config |-> config,
                   env |-> env, found |-> None, typed |-> None]
    /\ pc' = "constructing"
    /\ UNCHANGED <<endVars, envVars, configWrites, api_key, client, sessionVars,
                   iterVars, audioVars>>

\* CuriosityAgent.__init__
CuriosityAgent_init ==
    /\ pc = "constructing"
    /\ api_key' = ResolveKey(frame.api_key, frame.config, frame.env)
    /\ IF CredentialMissing(api_key')
       THEN \* ValueError: main() exits with status 1, another caller sees it raised
            /\ Terminate("exit1", "NoCredential", FALSE)
            /\ UNCHANGED client
       ELSE /\ client' = "OpenAI"
            /\ \/ \* sr.Recognizer() and sr.Microphone() when the import succeeded
                  /\ conversation_history' = <<>>
                  /\ muted' = FALSE
                  /\ pc' = "constructed"
                  /\ UNCHANGED <<endVars, audioVars, iterVars>>
               \/ \* sr.Microphone() raises (no PyAudio, no input device): no
                  \* handler of main() catches it and the process ends in a traceback
                  /\ SPEECH_RECOGNITION_AVAILABLE
                  /\ Terminate("exit1", "MicrophoneError", FALSE)
    /\ UNCHANGED <<envVars, frame, configWrites>>

(***************************************************************************)
(* ask, speak and the playback of the synthesized answer.                  *)
(***************************************************************************)
\* a slip of RecentHistory: the first six turns, conversation_history[:6]
RecentHistory_first(h) == Prefix(h, HistoryWindow)

\* self.conversation_history[-6:]
RecentHistory(h) == Suffix(h, HistoryWindow)

\* a slip of Fallback: the whole diagnostic, str(e)
Fallback_whole(e) == OopsText \o e \o <<41>>

\* f"Oops! Something went wrong. Let's try again! ({str(e)[:50]})"
Fallback(e) == OopsText \o Prefix(e, DiagLimit) \o <<41>>

\* a slip of HistoryOnFailure: the except branch drops the oldest turn
HistoryOnFailure_drop_first(h) == Tail(h)

\* the history the except branch of ask() leaves
HistoryOnFailure(h) == h

\* a slip of WillSynthesize: speak() without its test of self.muted
WillSynthesize_unmuted(m, text) == _clean_for_speech(text) # <<>>

\* a slip of WillSynthesize: speak() without its test of clean_text
WillSynthesize_any(m, text) == ~m

\* speak() reaches the synthesis request
WillSynthesize(m, text) == ~m /\ _clean_for_speech(text) # <<>>

\* the model explores a further question
WithinBounds == Len(conversation_history) < MaxHist /\ nfiles < MaxFiles

Count(c, what) == [c EXCEPT ![what] = @ + 1]

\* a slip of ask: without the test of question.strip()
ask_unchecked(q, c) ==
    /\ question' = q
    /\ history_before' = conversation_history
    /\ conversation_history' = Append(conversation_history, Turn("user", q))
    /\ recent_history' = RecentHistory(conversation_history')
    /\ calls' = Count(c, "completion")
    /\ pc' = "completing"
    /\ UNCHANGED <<answer, askResult, printed, diag, muted, synthesis, clean_text>>

\* ask(question), up to its completion request, and the print of a rejection
ask(q, c) ==
    /\ question' = q
    /\ history_before' = conversation_history
    /\ IF Strip(q) = <<>>
       THEN /\ answer' = PleaseAskText
            /\ askResult' = "rejected"
            /\ printed' = TRUE
            /\ recent_history' = <<>>
            /\ calls' = c
            /\ pc' = "answered"
            /\ UNCHANGED conversation_history
       ELSE /\ conversation_history' = Append(conversation_history, Turn("user", q))
            /\ recent_history' = RecentHistory(conversation_history')
            /\ calls' = Count(c, "completion")
            /\ pc' = "completing"
            /\ UNCHANGED <<answer, askResult, printed>>
    /\ UNCHANGED <<diag, muted, synthesis, clean_text>>

\* the completion call returns: ask() records and returns the answer, run() prints it
ask_ok(raw) ==
    /\ pc = "completing"
    /\ answer' = Strip(raw)
    /\ conversation_history' = Append(conversation_history, Turn("assistant", answer'))
    /\ askResult' = "ok"
    /\ printed' = TRUE
    /\ pc' = "answered"
    /\ UNCHANGED <<endVars, envVars, credVars, muted, user_input, listened, question,
                   history_before, recent_history, clean_text, diag, calls, synthesis, audioVars>>

\* the completion call raises: ask() returns the fallback, run() prints it
ask_fail(e) ==
    /\ pc = "completing"
    /\ diag' = e
    /\ answer' = Fallback(e)
    /\ conversation_history' = HistoryOnFailure(conversation_history)
    /\ askResult' = "failed"
    /\ printed' = TRUE
    /\ pc' = "answered"
    /\ UNCHANGED <<endVars, envVars, credVars, muted, user_input, listened, question,
                   history_before, recent_history, clean_text, calls, synthesis, audioVars>>

\* a variant of speak: the synthesis request is handed to a background unit and
\* speak() returns without its response
speak_detached ==
    /\ pc = "answered"
    /\ IF WillSynthesize(muted, answer)
       THEN /\ calls' = Count(calls, "synthesis")
            /\ synthesis' = "requested"
       ELSE UNCHANGED <<calls, synthesis>>
    /\ pc' = "looping"
    /\ UNCHANGED <<endVars, envVars, credVars, sessionVars, user_input, listened, question,
                   history_before, recent_history, answer, diag, askResult, printed, audioVars>>
    /\ clean_text' = IF muted THEN clean_text ELSE _clean_for_speech(answer)

\* speak(answer), up to its synthesis request
speak ==
    /\ pc = "answered"
    /\ IF WillSynthesize(muted, answer)
       THEN \* self.client.audio.speech.create(...): speak() waits for the response
            /\ calls' = Count(calls, "synthesis")
            /\ synthesis' = "requested"
            /\ pc' = "synthesizing"
       ELSE /\ pc' = "looping"
            /\ UNCHANGED <<calls, synthesis>>
    /\ UNCHANGED <<endVars, envVars, credVars, sessionVars, user_input, listened, question,
                   history_before, recent_history, answer, diag, askResult, printed, audioVars>>
    /\ clean_text' = IF muted THEN clean_text ELSE _clean_for_speech(answer)

\* a slip of speak_synth_fail: speak() without its except clause, the
\* exception of the synthesis request ends the process
speak_synth_fail_raises ==
    /\ pc = "synthesizing"
    /\ Terminate("exit1", "SynthesisError", FALSE)
    /\ UNCHANGED <<envVars, credVars>>

\* the synthesis request raises: "(Voice unavailable: ...)"
speak_synth_fail ==
    /\ pc = "synthesizing"
    /\ synthesis' = "idle"
    /\ pc' = "looping"
    /\ UNCHANGED <<endVars, envVars, credVars, sessionVars, user_input, listened, question,
                   history_before, recent_history, answer, clean_text, diag, askResult, printed, calls,
                   audioVars>>

\* the synthesis request returns: the audio goes to a temporary file and is played
speak_synth_ok(written) ==
    /\ pc = "synthesizing"
    /\ synthesis' = "idle"
    /\ nfiles' = nfiles + 1
    /\ tmpfiles' = tmpfiles \cup {nfiles'}
    /\ IF ~written
       THEN \* stream_to_file raises: "(Voice unavailable: ...)"
            /\ pc' = "looping"
            /\ UNCHANGED <<units, temp_path>>
       ELSE IF PLAYSOUND_AVAILABLE
       THEN \* threading.Thread(target=self._play_and_cleanup, daemon=True).start()
            /\ units' = units \cup {nfiles'}
            /\ pc' = "looping"
            /\ UNCHANGED temp_path
       ELSE IF platform \in {"darwin", "linux"}
       THEN \* os.system('afplay ... && rm ...'), os.system('mpg123 ... && rm ...')
            /\ temp_path' = nfiles'
            /\ pc' = "playing"
            /\ UNCHANGED units
       ELSE \* "(Audio playback not available on this system)"
            /\ pc' = "looping"
            /\ UNCHANGED <<units, temp_path>>
    /\ UNCHANGED <<endVars, envVars, credVars, sessionVars, user_input, listened, question,
                   history_before, recent_history, answer, clean_text, diag, askResult, printed, calls,
                   played>>

\* os.system returns: the shell ran rm only if the player succeeded
speak_system(ok) ==
    /\ pc = "playing"
    /\ played' = played \cup {temp_path}
    /\ tmpfiles' = IF ok THEN tmpfiles \ {temp_path} ELSE tmpfiles
    /\ temp_path' = 0
    /\ pc' = "looping"
    /\ UNCHANGED <<endVars, envVars, credVars, sessionVars, iterVars, nfiles, units>>

\* _play_and_cleanup(filepath) in its background thread: playsound succeeds or
\* raises, and the finally clause unlinks the file
_play_and_cleanup(filepath, ok) ==
    /\ outcome = "running"
    /\ filepath \in units
    /\ played' = played \cup {filepath}
    /\ tmpfiles' = tmpfiles \ {filepath}
    /\ units' = units \ {filepath}
    /\ UNCHANGED <<pc, endVars, envVars, credVars, sessionVars, iterVars, nfiles, temp_path>>

(***************************************************************************)
(* listen and run.                                                         *)
(***************************************************************************)
\* user_input = input(...).strip().lower()
UserInput(line) == Lower(Strip(line))

\* agent.run() is entered
run_enter ==
    /\ pc = "constructed"
    /\ pc' = "prompt"
    /\ frame' = NoFrame
    /\ UNCHANGED <<endVars, envVars, configWrites, api_key, client, sessionVars,
                   iterVars, audioVars>>

\* quit, exit, bye, q
run_quit(line) ==
    /\ pc = "prompt"
    /\ UserInput(line) \in QuitWords
    /\ Terminate("exit0", "quit", TRUE)
    /\ UNCHANGED <<envVars, credVars>>

\* a slip of run_clear: the last turn is kept
run_clear_last(line) ==
    /\ pc = "prompt"
    /\ UserInput(line) = ClearWord
    /\ user_input' = UserInput(line)
    /\ listened' = "no"
    /\ conversation_history' = Suffix(conversation_history, 1)
    /\ UNCHANGED <<pc, endVars, envVars, credVars, muted, askVars, audioVars>>

\* clear: clear_history()
run_clear(line) ==
    /\ pc = "prompt"
    /\ UserInput(line) = ClearWord
    /\ user_input' = UserInput(line)
    /\ listened' = "no"
    /\ conversation_history' = <<>>
    /\ UNCHANGED <<pc, endVars, envVars, credVars, muted, askVars, audioVars>>

\* a slip of run_mute: mute also starts the conversation afresh
run_mute_clears(line) ==
    /\ pc = "prompt"
    /\ UserInput(line) = MuteWord
    /\ user_input' = UserInput(line)
    /\ listened' = "no"
    /\ muted' = TRUE
    /\ conversation_history' = <<>>
    /\ UNCHANGED <<pc, endVars, envVars, credVars, askVars, audioVars>>

\* mute
run_mute(line) ==
    /\ pc = "prompt"
    /\ UserInput(line) = MuteWord
    /\ user_input' = UserInput(line)
    /\ listened' = "no"
    /\ muted' = TRUE
    /\ UNCHANGED <<pc, endVars, envVars, credVars, conversation_history, askVars, audioVars>>

\* unmute
run_unmute(line) ==
    /\ pc = "prompt"
    /\ UserInput(line) = UnmuteWord
    /\ user_input' = UserInput(line)
    /\ listened' = "no"
    /\ muted' = FALSE
    /\ UNCHANGED <<pc, endVars, envVars, credVars, conversation_history, askVars, audioVars>>

\* empty input: continue
run_empty(line) ==
    /\ pc = "prompt"
    /\ UserInput(line) = <<>>
    /\ user_input' = UserInput(line)
    /\ listened' = "no"
    /\ UNCHANGED <<pc, endVars, envVars, credVars, sessionVars, askVars, audioVars>>

\* a slip of run_voice_nothing: the empty text goes on to ask()
run_voice_nothing_asks(line) ==
    /\ pc = "prompt"
    /\ UserInput(line) = VoiceWord
    /\ listened' = IF SPEECH_RECOGNITION_AVAILABLE THEN "WaitTimeoutError" ELSE "unavailable"
    /\ user_input' = <<>>
    /\ ask(<<>>, calls)
    /\ UNCHANGED <<endVars, envVars, credVars, audioVars>>

\* voice: listen() returns "" (recognition unavailable, or a caught exception)
\* and run() continues with the next prompt
run_voice_nothing(line) ==
    /\ pc = "prompt"
    /\ UserInput(line) = VoiceWord
    /\ \/ /\ ~SPEECH_RECOGNITION_AVAILABLE
          /\ listened' = "unavailable"
       \/ /\ SPEECH_RECOGNITION_AVAILABLE
          /\ \E e \in ListenFailures : listened' = e
    \* user_input = self.listen(), which returned ""
    /\ user_input' = <<>>
    /\ UNCHANGED <<pc, endVars, envVars, credVars, sessionVars, askVars, audioVars>>

\* a slip of run_voice_text: the transcribed text is read as a typed line is
run_voice_text_command(line, text) ==
    /\ pc = "prompt"
    /\ UserInput(line) = VoiceWord
    /\ SPEECH_RECOGNITION_AVAILABLE
    /\ text # <<>>
    /\ user_input' = text
    /\ listened' = "text"
    /\ IF UserInput(text) = MuteWord
       THEN /\ muted' = TRUE
            /\ UNCHANGED <<pc, conversation_history, askVars>>
       ELSE /\ WithinBounds
            /\ Strip(text) = <<>> \/ Len(conversation_history) < MaxVoiceHist
            /\ ask(text, Count(calls, "transcription"))
    /\ UNCHANGED <<endVars, envVars, credVars, audioVars>>

\* voice: listen() returns the transcribed text, which goes to ask() unless empty
run_voice_text(line, text) ==
    /\ pc = "prompt"
    /\ UserInput(line) = VoiceWord
    /\ SPEECH_RECOGNITION_AVAILABLE
    \* user_input = self.listen()
    /\ user_input' = text
    /\ listened' = "text"
    /\ IF text = <<>>
       THEN UNCHANGED <<pc, sessionVars, askVars>>
       ELSE /\ WithinBounds
            /\ Strip(text) = <<>> \/ Len(conversation_history) < MaxVoiceHist
            /\ ask(text, Count(calls, "transcription"))
    /\ UNCHANGED <<endVars, envVars, credVars, audioVars>>

\* anything else is a question: ask(user_input)
run_question(line) ==
    /\ pc = "prompt"
    /\ UserInput(line) \notin CommandWords \cup {<<>>}
    /\ WithinBounds
    /\ user_input' = UserInput(line)
    /\ listened' = "no"
    /\ ask(UserInput(line), calls)
    /\ UNCHANGED <<endVars, envVars, credVars, audioVars>>

\* KeyboardInterrupt in input() or in a remote call of the iteration
run_interrupt ==
    /\ pc \in {"prompt", "completing", "synthesizing"}
    /\ Terminate("exit0", "interrupt", TRUE)
    /\ UNCHANGED <<envVars, credVars>>

\* EOFError in input()
run_eof ==
    /\ pc = "prompt"
    /\ Terminate("exit0", "eof", FALSE)
    /\ UNCHANGED <<envVars, credVars>>

\* the iteration ends: back to the top of the loop
run_loop ==
    /\ pc = "looping"
    /\ pc' = "prompt"
    /\ IterReset
    /\ UNCHANGED <<endVars, envVars, credVars, sessionVars, audioVars>>

(***************************************************************************)
(* The specification.                                                      *)
(***************************************************************************)
\* the process up to the first prompt
NextStartup ==
    \/ main
    \/ caller
    \/ CuriosityAgent_init
    \/ run_enter

\* the command loop and the playback threads
NextSession ==
    \/ \E line \in TypedLines : run_quit(line)
    \/ \E line \in TypedLines : run_clear(line)
    \/ \E line \in TypedLines : run_mute(line)
    \/ \E line \in TypedLines : run_unmute(line)
    \/ \E line \in TypedLines : run_empty(line)
    \/ \E line \in TypedLines : run_voice_nothing(line)
    \/ \E line \in TypedLines, text \in Transcripts : run_voice_text(line, text)
    \/ \E line \in TypedLines : run_question(line)
    \/ run_interrupt
    \/ run_eof
    \/ run_loop
    \/ \E raw \in RawAnswers : ask_ok(raw)
    \/ \E e \in Diagnostics : ask_fail(e)
    \/ speak
    \/ speak_synth_fail
    \/ \E written \in BOOLEAN : speak_synth_ok(written)
    \/ \E ok \in BOOLEAN : speak_system(ok)
    \/ \E filepath \in 1..MaxFiles + 1, ok \in BOOLEAN : _play_and_cleanup(filepath, ok)

Next == NextStartup \/ NextSession

\* a constructed session
Spec == Init /\ [][NextSession]_vars

\* the whole process, from its start
SpecProgram == InitProcess /\ [][Next]_vars

\* an iteration of run() at the call of speak(answer): a first question "why?"
\* was answered with any of SpokenAnswers and the answer was printed
InitSpeak ==
    /\ pc = "answered"
    /\ outcome = "running"
    /\ endCause = "none"
    /\ farewell = FALSE
    /\ SPEECH_RECOGNITION_AVAILABLE \in BOOLEAN
    /\ PLAYSOUND_AVAILABLE \in BOOLEAN
    /\ platform \in IF PLAYSOUND_AVAILABLE THEN {"linux"} ELSE Platforms
    /\ frame = NoFrame
    /\ configWrites = 0
    /\ api_key = <<115, 107, 45, 49>>
    /\ client = "OpenAI"
    /\ muted \in BOOLEAN
    /\ user_input = <<119, 104, 121, 63>>
    /\ listened = "no"
    /\ question = user_input
    /\ history_before = <<>>
    /\ recent_history = <<Turn("user", question)>>
    /\ \E raw \in SpokenAnswers : answer = Strip(raw)
    /\ conversation_history = <<Turn("user", question), Turn("assistant", answer)>>
    /\ clean_text = None
    /\ diag = None
    /\ askResult = "ok"
    /\ printed = TRUE
    /\ calls = Count(NoCalls, "completion")
    /\ synthesis = "idle"
    /\ nfiles = 0
    /\ tmpfiles = {}
    /\ units = {}
    /\ played = {}
    /\ temp_path = 0

\* speak(answer) to the end of the iteration, and the playback threads
NextSpeak ==
    \/ speak
    \/ speak_synth_fail
    \/ \E written \in BOOLEAN : speak_synth_ok(written)
    \/ \E ok \in BOOLEAN : speak_system(ok)
    \/ \E filepath \in 1..MaxFiles + 1, ok \in BOOLEAN : _play_and_cleanup(filepath, ok)
    \/ run_loop

\* speak() on the answers of SpokenAnswers
SpecSpeak == InitSpeak /\ [][NextSpeak]_vars

\* the process from its start to its first prompt: main(), the constructor
\* and the entry of run()
SpecStartup == InitProcess /\ [][NextStartup]_vars

(***************************************************************************)
(* Properties.                                                             *)
(***************************************************************************)
Min(a, b) == IF a < b THEN a ELSE b

AssistantTurns(h) == Cardinality({i \in DOMAIN h : h[i].role = "assistant"})

\* C1: while the completion request of ask is outstanding, the turns it
\* submitted are the last min(6, n) turns of the stored history of n turns,
\* in the stored order, and the stored history is the history ask found with
\* the new user turn appended: nothing of it was dropped.
C1_WindowIsLastSix ==
    pc = "completing" =>
        LET h == conversation_history
            n == Len(h)
            k == Min(HistoryWindow, n)
        IN  /\ Len(recent_history) = k
            /\ \A i \in 1..k : recent_history[i] = h[n - k + i]
            /\ n = Len(history_before) + 1
            /\ \A i \in 1..Len(history_before) : h[i] = history_before[i]
            /\ h[n] = Turn("user", question)

\* C1 witness: a request is outstanding and the stored history is longer than the window
C1_Witness ==
    /\ pc = "completing"
    /\ Len(conversation_history) > HistoryWindow
    /\ recent_history # conversation_history

\* C2: after a failed completion call the answer ask returned is the fallback
\* text around the first min(50, n) characters of the diagnostic of n
\* characters, and the history holds as many assistant turns as before the ask.
C2_FallbackTruncatedNoAssistantTurn ==
    askResult = "failed" =>
        LET n == Min(DiagLimit, Len(diag))
        IN  /\ Len(answer) = Len(OopsText) + n + 1
            /\ \A i \in 1..Len(OopsText) : answer[i] = OopsText[i]
            /\ \A i \in 1..n : answer[Len(OopsText) + i] = diag[i]
            /\ answer[Len(answer)] = 41
            /\ AssistantTurns(conversation_history) = AssistantTurns(history_before)

\* C2 witness: the fallback was returned for a diagnostic longer than 50 characters
C2_Witness ==
    /\ pc = "answered"
    /\ askResult = "failed"
    /\ Len(diag) > DiagLimit
    /\ printed

\* C3, as claimed: after a failed completion call the history is the history
\* before the ask.
C3_Original_HistoryAsBefore ==
    askResult = "failed" => conversation_history = history_before

\* C3, what the code does instead: after a failed completion call the history
\* is the history before the ask followed by the question as a user turn that
\* no answer follows.
C3_QuestionStaysRecorded ==
    askResult = "failed" =>
        conversation_history = Append(history_before, Turn("user", question))

\* C3 witness: a completion call failed on a history that held turns already
C3_Witness ==
    /\ pc = "answered"
    /\ askResult = "failed"
    /\ history_before # <<>>

\* a question went through ask and speak: the iteration is at its end
Asked == pc = "looping" /\ askResult # "none"

\* C4: while muted, no synthesis request is issued and speak never waits for
\* one, and a question that is not blank had its completion call; while not
\* muted, a question whose sanitized answer is not empty had its synthesis
\* request.  The flag changes only by a command step at the prompt (or is
\* discarded with the process), so it holds from a mute to the next unmute
\* over any number of questions.
C4_State ==
    /\ muted => calls.synthesis = 0 /\ pc \notin {"synthesizing", "playing"}
    /\ Asked /\ Strip(question) # <<>> => calls.completion = 1
    /\ Asked /\ ~muted /\ _clean_for_speech(answer) # <<>> => calls.synthesis = 1

C4_Step ==
    muted' # muted => pc' = "done" \/ (pc = "prompt" /\ pc' = "prompt")

C4_MuteStopsSynthesis == []C4_State /\ [][C4_Step]_vars

\* C4 witness: a question was answered while muted: one completion call, no synthesis
C4_Witness ==
    /\ Asked
    /\ muted
    /\ askResult = "ok"
    /\ _clean_for_speech(answer) # <<>>
    /\ calls.completion = 1
    /\ calls.synthesis = 0

\* the text config.json gives: its key without the white space around it
ConfigValue(config) == IF config.state = "readable" THEN Strip(config.key) ELSE <<>>

\* line 98 of a construction ran and its arguments are still at hand
Resolved ==
    /\ frame.entry # "none"
    /\ pc \in {"constructed", "done"}
    /\ endCause # "declined"

NoSource(f) == ~Truthy(f.api_key) /\ ConfigValue(f.config) = <<>> /\ ~Truthy(f.env)

\* C5: the credential of a construction is the explicit argument when that
\* is not empty, else the value of config.json when that is not empty, else
\* the environment variable; with a value in any of them the construction
\* does not fail for want of a credential.
C5_CredentialPrecedence ==
    Resolved =>
        /\ Truthy(frame.api_key) => api_key = frame.api_key
        /\ ~Truthy(frame.api_key) /\ ConfigValue(frame.config) # <<>>
              => api_key = ConfigValue(frame.config)
        /\ ~Truthy(frame.api_key) /\ ConfigValue(frame.config) = <<>> /\ Truthy(frame.env)
              => api_key = frame.env
        /\ ~NoSource(frame) => endCause # "NoCredential"

\* C5 witness: only config.json holds a credential, " sk-2 ", while the
\* environment variable holds another: the agent is constructed with "sk-2"
C5_Witness ==
    /\ pc = "constructed"
    /\ frame.entry = "caller"
    /\ ~Truthy(frame.api_key)
    /\ frame.config = [state |-> "readable", key |-> <<32, 115, 107, 45, 50, 32>>]
    /\ Truthy(frame.env)
    /\ api_key = <<115, 107, 45, 50>>
    /\ client = "OpenAI"

\* C6: a construction for which no source gives a credential ends in the
\* NoCredential error with no client, no history and no remote request, and
\* the process is over: no step of the program, of its start or of its command
\* loop, is possible after it; no client exists without a credential and no
\* remote request is issued without a client.
C6_NoCredentialNoSession ==
    /\ Resolved /\ NoSource(frame) =>
          /\ pc = "done"
          /\ endCause = "NoCredential"
          /\ outcome = "exit1"
          /\ client = "None"
          /\ conversation_history = <<>>
          /\ calls = NoCalls
          /\ synthesis = "idle"
          /\ nfiles = 0
    /\ endCause = "NoCredential" => ~ENABLED Next
    /\ client = "OpenAI" => Truthy(api_key)
    /\ calls # NoCalls => client = "OpenAI"

\* C6 witness: a construction with an empty explicit key, a blank config.json
\* and no environment variable failed
C6_Witness ==
    /\ pc = "done"
    /\ endCause = "NoCredential"
    /\ frame.api_key = <<>>
    /\ frame.config = [state |-> "readable", key |-> <<32, 32>>]
    /\ frame.env = None

\* C7, as claimed: a process that ended otherwise than by the user's quit,
\* interrupt, end of input or refusal to give a key ended by NoCredential,
\* with a status other than 0.
C7_OnlyNoCredentialTerminates ==
    pc = "done" /\ endCause \notin {"quit", "interrupt", "eof", "declined"} =>
        endCause = "NoCredential" /\ outcome # "exit0"

\* C8, as claimed: the loop ended by an interrupt or by the end of input has
\* printed the farewell and ends the process as a quit command does.
C8_InterruptAndEofSayFarewell ==
    pc = "done" /\ endCause \in {"interrupt", "eof"} =>
        farewell /\ outcome = "exit0"

\* C9, as claimed: an audio file whose playback attempt has ended, with or
\* without success, no longer exists.
C9_PlayedFilesAreDeleted ==
    \A f \in played : f \notin tmpfiles

\* the main thread waits for the synthesis service or for the player
WaitsForSpeech == pc \in {"synthesizing", "playing"}

C11_SanitizerExample ==
    answer = ExampleText /\ clean_text # None =>
        clean_text = <<67, 104, 101, 99, 107, 32, 104, 101, 114, 101>>

\* C11, what the code does instead: the URL pattern takes the target of the
\* link together with its closing parenthesis, the link pattern finds no link
\* any more, and speak() sends "Check [here](" to the synthesis service
C11_Witness ==
    /\ pc = "synthesizing"
    /\ answer = ExampleText
    /\ clean_text = <<67, 104, 101, 99, 107, 32, 91, 104, 101, 114, 101, 93, 40>>

\* C12: a question that is empty after stripping is rejected: ask returned
\* "Please ask me something!", issued no completion request and left the
\* history as it found it, and speak follows without ask ever waiting for the
\* completion service.
C12_BlankQuestionRejected ==
    question # None /\ Strip(question) = <<>> =>
        /\ askResult = "rejected"
        /\ answer = PleaseAskText
        /\ calls.completion = 0
        /\ recent_history = <<>>
        /\ conversation_history = history_before
        /\ pc # "completing"

\* C12 witness: a spoken question of two spaces was rejected on a history that is not empty
C12_Witness ==
    /\ pc = "answered"
    /\ question = <<32, 32>>
    /\ askResult = "rejected"
    /\ history_before # <<>>

\* listen() was called in this iteration and gave the empty text
HeardNothing == listened # "no" /\ user_input = <<>>

C13_State ==
    HeardNothing =>
        /\ pc = "prompt"
        /\ askResult = "none"
        /\ calls.completion = 0

C13_Step ==
    pc = "prompt" /\ HeardNothing' =>
        /\ pc' = "prompt"
        /\ calls'.completion = calls.completion
        /\ UNCHANGED <<conversation_history, muted, question, answer>>

\* C13: when listen() gave the empty text (recognition unavailable, a timeout,
\* unintelligible speech, a service error, any other exception, or an empty
\* transcript) the iteration is over at the next prompt: no completion request
\* was issued, ask was not called, and the history and the muted flag are as
\* they were.
C13_VoiceNothingReprompts == []C13_State /\ [][C13_Step]_vars

\* C13 witness: unintelligible speech after a conversation: back at the prompt
C13_Witness ==
    /\ pc = "prompt"
    /\ listened = "UnknownValueError"
    /\ user_input = <<>>
    /\ conversation_history # <<>>

\* the clear command was the last input: the prompt follows it
Cleared == pc = "prompt" /\ listened = "no" /\ user_input = ClearWord

C14_State ==
    Cleared =>
        /\ conversation_history = <<>>
        /\ \A n \in 1..MaxHist + 1 : Suffix(conversation_history, n) = <<>>

C14_Step ==
    /\ Cleared /\ Cleared' => UNCHANGED <<sessionVars, askVars>>
    /\ Cleared /\ pc' = "completing" =>
          /\ recent_history' = <<Turn("user", question')>>
          /\ conversation_history' = recent_history'

\* C14: after clear the history is empty, and so is its window of any size;
\* a clear after a clear leaves the session as it was; the ask that follows a
\* clear submits the new user turn alone.
C14_ClearEmptiesIdempotent == []C14_State /\ [][C14_Step]_vars

\* C14 witness: clear was typed after an answer had been synthesized
C14_Witness ==
    /\ Cleared
    /\ nfiles > 0
    /\ conversation_history = <<>>

\* main() asked for a key: none was found and the key typed is not empty
TypedNewKey ==
    /\ frame.entry = "main"
    /\ ~Truthy(frame.found)
    /\ frame.typed # None
    /\ Strip(frame.typed) # <<>>

C15_State ==
    /\ configWrites <= 1
    /\ frame.entry = "main" /\ ~TypedNewKey => configWrites = 0
    /\ frame.entry = "main" /\ configWrites = 1 =>
          frame.config = [state |-> "readable", key |-> Strip(frame.typed)]

C15_Step ==
    configWrites' # configWrites =>
        /\ pc = "start"
        /\ configWrites = 0
        /\ TypedNewKey'

\* C15: config.json is written at most once, by main() before the agent is
\* constructed, and only when neither config.json nor the environment gave a
\* key and the key typed at the prompt is not empty; what is written is that
\* key without the white space around it.
C15_ConfigWrittenOnceWhenTyped == []C15_State /\ [][C15_Step]_vars

\* C15 witness: nothing was found, " sk-4 " was typed and saved, and the agent runs with it
C15_Witness ==
    /\ pc = "constructed"
    /\ configWrites = 1
    /\ TypedNewKey
    /\ api_key = <<115, 107, 45, 52>>

\* the step reads a line that is the local command w
LocalCommand(w) == pc = "prompt" /\ listened' = "no" /\ user_input' = w

\* no remote request, no ask, and the loop is at the prompt again
NothingAsked ==
    /\ pc' = "prompt"
    /\ calls' = calls
    /\ calls' = NoCalls
    /\ UNCHANGED <<question, answer, askResult, synthesis, nfiles>>

C16_Step ==
    /\ LocalCommand(MuteWord) =>
          muted' /\ UNCHANGED conversation_history /\ NothingAsked
    /\ LocalCommand(UnmuteWord) =>
          ~muted' /\ UNCHANGED conversation_history /\ NothingAsked
    /\ LocalCommand(ClearWord) =>
          conversation_history' = <<>> /\ UNCHANGED muted /\ NothingAsked
    /\ LocalCommand(<<>>) =>
          UNCHANGED <<conversation_history, muted>> /\ NothingAsked

\* C16: a step of the loop that reads mute, unmute, clear or an empty line
\* (after strip and lower) issues no remote request and calls neither ask nor
\* speak; mute and unmute set the flag and leave the history, clear empties
\* the history and leaves the flag, an empty line leaves both.
C16_LocalCommandsFrame == [][C16_Step]_vars

\* C16 witness: mute was typed in a conversation: the flag is set, the history kept
C16_Witness ==
    /\ pc = "prompt"
    /\ listened = "no"
    /\ user_input = MuteWord
    /\ muted
    /\ Len(conversation_history) >= 2

\* speak() is running: from its call to its return
Speaking == pc \in {"answered", "synthesizing", "playing"}

C17_State ==
    /\ Speaking => outcome = "running"
    /\ pc = "looping" => outcome = "running" /\ ENABLED run_loop

C17_Step ==
    /\ Speaking /\ endCause' # "interrupt" =>
          /\ pc' \in {"answered", "synthesizing", "playing", "looping"}
          /\ outcome' = "running"
          /\ UNCHANGED <<conversation_history, muted>>
    /\ units' # units /\ units' \subseteq units /\ outcome' = "running" =>
          UNCHANGED <<pc, outcome, conversation_history, muted>>

\* C17: from the call of speak to its return, whether the synthesis request,
\* the writing of the file or the playback succeeds or fails, the process
\* keeps running and the history and the muted flag stay as they were; speak
\* returns to the end of the iteration, from where the next prompt is reached;
\* a playback thread, failing or not, touches none of these.  (A keyboard
\* interrupt during the request is no failure of the speech path.)
C17_SpeechFailureCaught == []C17_State /\ [][C17_Step]_vars

\* C17 witness: the synthesis request of this iteration failed (a request and
\* no file ever written) and the iteration is at its end, the session running
C17_Witness ==
    /\ pc = "looping"
    /\ calls.synthesis = 1
    /\ nfiles = 0
    /\ outcome = "running"
    /\ Len(conversation_history) >= 2

\* C18: when the sanitized answer is empty speak returns at once: no synthesis
\* request was issued or is outstanding, no audio file exists, no playback
\* thread or system command runs, and the process keeps running.
C18_EmptySanitizedSkipsSpeech ==
    clean_text = <<>> =>
        /\ pc = "looping"
        /\ calls.synthesis = 0
        /\ synthesis = "idle"
        /\ nfiles = 0
        /\ tmpfiles = {}
        /\ units = {}
        /\ temp_path = 0
        /\ outcome = "running"

\* C18 witness: an answer that is not empty (pictographs, URLs, spaces) was sanitized to nothing
C18_Witness ==
    /\ clean_text = <<>>
    /\ ~muted
    /\ Len(answer) > 1
    /\ pc = "looping"

\* the history starts with a user turn and a user turn precedes every assistant turn
UserBeforeAssistant(h) ==
    /\ h # <<>> => h[1].role = "user"
    /\ \A i \in 2..Len(h) : h[i].role = "assistant" => h[i - 1].role = "user"

\* C19: the stored history is empty or begins with a user turn, and every
\* assistant turn in it follows a user turn directly.
C19_UserTurnBeforeAssistant == UserBeforeAssistant(conversation_history)

\* C19 witness: a failed question left its user turn, and the next question was answered
C19_Witness ==
    /\ Len(conversation_history) >= 3
    /\ conversation_history[1].role = "user"
    /\ conversation_history[2].role = "user"
    /\ conversation_history[3].role = "assistant"

\* listen() gave a text that is not empty
HeardText == listened = "text" /\ user_input # <<>>

C20_State ==
    HeardText =>
        /\ question = user_input
        /\ outcome = "running"
        /\ pc \notin {"prompt", "done"}

C20_Step ==
    pc = "prompt" /\ HeardText' =>
        /\ pc' \in {"completing", "answered"}
        /\ question' = user_input'
        /\ outcome' = "running"
        /\ UNCHANGED muted
        /\ Strip(user_input') # <<>> =>
              conversation_history' = Append(conversation_history, Turn("user", user_input'))

\* C20: a text that listen() returned and that is not empty goes to ask as the
\* question, as it is, whatever it says: the step that takes it neither ends
\* the loop nor changes the muted flag, and a text that is not blank is
\* recorded as a user turn.
C20_VoiceTextIsQuestion == []C20_State /\ [][C20_Step]_vars

\* C20 witness: "mute" was spoken while unmuted: it is a question under way and the flag is not set
C20_Witness ==
    /\ pc = "completing"
    /\ listened = "text"
    /\ user_input = MuteWord
    /\ question = MuteWord
    /\ ~muted

=============================================================================
